---- MODULE Spec2Model ----
(***************************************************************************)
(* websocket_chat: the ChatServer actor (src/src/server.rs) and the        *)
(* WsChatSession actors (src/src/main.rs).                                 *)
(*                                                                         *)
(* A Rust String is a tuple of one-character strings, so that trim,        *)
(* starts_with, splitn and format! are computed character by character.    *)
(* A HashMap is a function whose DOMAIN is its key set, a HashSet a set,   *)
(* an Option a set with at most one element.  A Recipient<Message> is the  *)
(* number of the session actor it delivers to.                             *)
(***************************************************************************)
EXTENDS Integers, Sequences, FiniteSets, Bags, TLC

\* ------------------------------------------------------------ bounds
\* Session actors are numbered 1..MaxSessions.
MaxSessions == 2
\* rng.gen::<usize>() draws from 0..MaxId.
MaxId == 2
\* Requests of the /count/ route that the model follows.
MaxCounts == 1
\* Commands waiting in the ChatServer's mailbox.
MaxMailbox == 1
\* Texts the ChatServer sent to a session that the session has not handled.
MaxPending == 2

Handles == 1..MaxSessions
Ids == 0..MaxId

\* ------------------------------------------------------------ strings
Main == <<"M","a","i","n">>
Sports == <<"S","p","o","r","t","s">>
Hello == <<"h","e","l","l","o">>
SomeoneJoined == <<"S","o","m","e","o","n","e"," ","j","o","i","n","e","d","!","!">>
SomeoneDisconnected == <<"S","o","m","e","o","n","e"," ","D","i","s","c","o","n","n","e","c","t","e","d","!","!">>
SomeoneConnected == <<"S","o","m","e","o","n","e"," ","C","o","n","n","e","c","t","e","d","!","!">>
TotalVisitors == <<"T","o","t","a","l"," ","v","i","s","i","t","o","r","s"," ">>

DecimalDigits == <<"0","1","2","3","4","5","6","7","8","9">>

\* The Display form of a usize, as format!("{}", n) writes it.
RECURSIVE ToDecimal(_)
ToDecimal(n) ==
    IF n < 10 THEN <<DecimalDigits[n + 1]>>
    ELSE ToDecimal(n \div 10) \o <<DecimalDigits[(n % 10) + 1]>>

\* format!("Total visitors {}", count)
TotalVisitorsText(count) == TotalVisitors \o ToDecimal(count)

\* Room names and peer messages the broker-level specification sends.
RoomNames == {Main, Sports}
Texts == {Hello}

\* ------------------------------------------------------------ state
VARIABLES
    sessions,       \* ChatServer.sessions: id -> Recipient
    rooms,          \* ChatServer.rooms: room name -> set of ids
    visitor_count,  \* the shared AtomicUsize
    last,           \* the message or event handled last, by any actor
    sent,           \* bag of <<recipient, text>> do_sends that handler made
    mailbox,        \* messages sent to the ChatServer and not yet handled
    sess,           \* the WsChatSession actors
    ctxout,         \* frames that handler (a session's) wrote to its client
    pending,        \* per session, the server::Message texts not yet handled
    open            \* the ChatServer runs: its mailbox takes messages

vars ==
    <<sessions, rooms, visitor_count, last, sent, mailbox, sess, ctxout, pending,
      open>>

\* ------------------------------------------------------------ maps
\* HashMap::insert / the entry API: m with key k bound to v.
MapPut(m, k, v) == [x \in DOMAIN m \cup {k} |-> IF x = k THEN v ELSE m[x]]

\* HashMap::remove: m without key k.
MapRemove(m, k) == [x \in DOMAIN m \ {k} |-> m[x]]

\* rooms.entry(name).or_insert_with(HashSet::new).insert(id)
RoomInsert(rms, name, id) ==
    MapPut(rms, name, (IF name \in DOMAIN rms THEN rms[name] ELSE {}) \cup {id})

\* for (name, sessions) in &mut self.rooms { sessions.remove(&id) }
RemoveFromAllRooms(rms, id) == [n \in DOMAIN rms |-> rms[n] \ {id}]

\* The names pushed to `rooms`: the rooms whose remove(&id) returned true.
RoomsHolding(rms, id) == {n \in DOMAIN rms : id \in rms[n]}

\* ------------------------------------------------------------ send_message
\* A broken send_message that also sends to skip_id.
send_message_noskip(rms, ss, room, message, skip_id) ==
    IF room \in DOMAIN rms
    THEN LET to == {id \in rms[room] : id \in DOMAIN ss}
         IN  [d \in {<<ss[id], message>> : id \in to} |->
                 Cardinality({id \in to : ss[id] = d[1]})]
    ELSE EmptyBag

\* ChatServer::send_message: one do_send of `message` to the recipient of
\* every id of `room` other than skip_id that the registry knows; nothing
\* when the room does not exist.  The result is the bag of do_sends.
send_message(rms, ss, room, message, skip_id) ==
    IF room \in DOMAIN rms
    THEN LET to == {id \in rms[room] : id # skip_id /\ id \in DOMAIN ss}
         IN  [d \in {<<ss[id], message>> : id \in to} |->
                 Cardinality({id \in to : ss[id] = d[1]})]
    ELSE EmptyBag

\* for room in rooms { self.send_message(&room, message, 0) }
RECURSIVE SendToRooms(_, _, _, _)
SendToRooms(rms, ss, names, message) ==
    IF names = {} THEN EmptyBag
    ELSE LET n == CHOOSE x \in names : TRUE
         IN  send_message(rms, ss, n, message, 0)
                 (+) SendToRooms(rms, ss, names \ {n}, message)

\* ------------------------------------------------------------ handlers
\* Each handler maps the ChatServer's fields (ss, rms, count) and its message
\* to the fields after it, the bag of do_sends it made (sent), the same
\* do_sends text by text in the order the handler sends them (parts) and its
\* result.

\* Handler<Connect>::handle, with `id` the value rng.gen::<usize>() returns.
\* A broken Connect that reads the visitor count without incrementing it.
HandleConnectLoad(ss, rms, count, addr, id) ==
    LET ss1  == MapPut(ss, id, addr)
        rms1 == RoomInsert(rms, Main, id)
    IN  [sessions |-> ss1, rooms |-> rms1, visitor_count |-> count,
         sent |-> send_message(rms, ss, Main, SomeoneJoined, 0)
                    (+) send_message(rms1, ss1, Main, TotalVisitorsText(count), 0),
         parts |-> <<send_message(rms, ss, Main, SomeoneJoined, 0),
                     send_message(rms1, ss1, Main, TotalVisitorsText(count), 0)>>,
         ret |-> id]

HandleConnect(ss, rms, count, addr, id) ==
    LET s1   == send_message(rms, ss, Main, SomeoneJoined, 0)
        ss1  == MapPut(ss, id, addr)
        rms1 == RoomInsert(rms, Main, id)
        s2   == send_message(rms1, ss1, Main, TotalVisitorsText(count), 0)
    IN  [sessions |-> ss1, rooms |-> rms1, visitor_count |-> count + 1,
         sent |-> s1 (+) s2, parts |-> <<s1, s2>>, ret |-> id]

\* A broken Disconnect that cleans the rooms whether or not the id is registered.
HandleDisconnectAlways(ss, rms, count, id) ==
    LET rms1 == RemoveFromAllRooms(rms, id)
        ss1  == MapRemove(ss, id)
        s1   == SendToRooms(rms1, ss1, RoomsHolding(rms, id), SomeoneDisconnected)
    IN  [sessions |-> ss1, rooms |-> rms1, visitor_count |-> count,
         sent |-> s1, parts |-> <<s1>>]

\* A broken Disconnect that leaves the id in the registry.
HandleDisconnectKeep(ss, rms, count, id) ==
    LET s1 == SendToRooms(RemoveFromAllRooms(rms, id), ss, RoomsHolding(rms, id),
                          SomeoneDisconnected)
    IN  [sessions |-> ss, rooms |-> RemoveFromAllRooms(rms, id), visitor_count |-> count,
         sent |-> s1, parts |-> <<s1>>]

\* Handler<Disconnect>::handle
HandleDisconnect(ss, rms, count, id) ==
    IF id \in DOMAIN ss
    THEN LET ss1  == MapRemove(ss, id)
             rms1 == RemoveFromAllRooms(rms, id)
             s1   == SendToRooms(rms1, ss1, RoomsHolding(rms, id), SomeoneDisconnected)
         IN  [sessions |-> ss1, rooms |-> rms1, visitor_count |-> count,
              sent |-> s1, parts |-> <<s1>>]
    ELSE [sessions |-> ss, rooms |-> rms, visitor_count |-> count,
          sent |-> EmptyBag, parts |-> <<>>]

\* A broken ClientMessage that creates the room it is sent to.
HandleClientMessageCreate(ss, rms, count, id, msg, room) ==
    LET rms1 == IF room \in DOMAIN rms THEN rms ELSE MapPut(rms, room, {})
    IN  [sessions |-> ss, rooms |-> rms1, visitor_count |-> count,
         sent |-> send_message(rms1, ss, room, msg, id),
         parts |-> <<send_message(rms1, ss, room, msg, id)>>]

\* Handler<ClientMessage>::handle
HandleClientMessage(ss, rms, count, id, msg, room) ==
    [sessions |-> ss, rooms |-> rms, visitor_count |-> count,
     sent |-> send_message(rms, ss, room, msg, id),
     parts |-> <<send_message(rms, ss, room, msg, id)>>]

\* The orders in which HashMap::keys may yield the keys S.
Orders(S) ==
    {q \in [1..Cardinality(S) -> S] : \A i, j \in DOMAIN q : i # j => q[i] # q[j]}

\* Handler<ListRooms>::handle, with `order` the order keys() yields.
HandleListRooms(ss, rms, count, order) ==
    [sessions |-> ss, rooms |-> rms, visitor_count |-> count,
     sent |-> EmptyBag, parts |-> <<>>, ret |-> order]

\* A broken Join that leaves the id in the rooms it was in.
HandleJoinKeep(ss, rms, count, id, name) ==
    LET rms2 == RoomInsert(rms, name, id)
    IN  [sessions |-> ss, rooms |-> rms2, visitor_count |-> count,
         sent |-> send_message(rms2, ss, name, SomeoneConnected, 0),
         parts |-> <<send_message(rms2, ss, name, SomeoneConnected, 0)>>]

\* Handler<Join>::handle
HandleJoin(ss, rms, count, id, name) ==
    LET rms1 == RemoveFromAllRooms(rms, id)
        s1   == SendToRooms(rms1, ss, RoomsHolding(rms, id), SomeoneDisconnected)
        rms2 == RoomInsert(rms1, name, id)
        s2   == send_message(rms2, ss, name, SomeoneConnected, 0)
    IN  [sessions |-> ss, rooms |-> rms2, visitor_count |-> count,
         sent |-> s1 (+) s2, parts |-> <<s1, s2>>]

\* ------------------------------------------------------------ session text
Joined == <<"j","o","i","n","e","d","!","!">>
RoomNameRequired == <<"!","!","!"," ","r","o","o","m"," ","n","a","m","e"," ","i","s"," ","r","e","q","u","i","e","r","d","!","!">>
NameRequired == <<"!","!","!"," ","n","a","m","e"," ","i","s"," ","r","e","q","u","i","r","e","d","!","!">>
UnknownCommand == <<"!","!","!"," ","u","n","k","n","o","w","n"," ","c","o","m","m","a","n","d",":"," ">>
CmdList == <<"/","l","i","s","t">>
CmdJoin == <<"/","j","o","i","n">>
CmdName == <<"/","n","a","m","e">>
Alice == <<"A","l","i","c","e">>

\* The alphabet of the texts here is U+0001 to U+00FF, the characters that
\* the string literals of a module can hold.

\* The control characters U+0001 to U+001F, the i-th being U+000i.
C0Controls ==
    <<
       "", "", "", "", "", "", "", "",
       "\t", "\n", "", "\f", "\r", "", "", "",
       "", "", "", "", "", "", "", "",
       "", "", "", "", "", "", "" >>

\* The characters U+007F to U+00A0 (DEL, the C1 controls and the no-break
\* space), the i-th being the code point 126 + i.
C1Controls ==
    <<
       "", "", "", "", "", "", "", "",
       "", "", "", "", "", "", "", "",
       "", "", "", "", "", "", "", "",
       "", "", "", "", "", "", "", "",
       "", " " >>

SoftHyphen == "­"

\* char::is_whitespace: the characters with the White_Space property, which
\* in this alphabet are U+0009 to U+000D, the space, U+0085 and U+00A0.
WhiteSpace ==
    {C0Controls[i] : i \in 9..13} \cup {" ", C1Controls[133 - 126], C1Controls[160 - 126]}

\* str::trim: without the leading and trailing white space.
RECURSIVE TrimStart(_)
TrimStart(t) ==
    IF t # <<>> /\ Head(t) \in WhiteSpace THEN TrimStart(Tail(t)) ELSE t

RECURSIVE TrimEnd(_)
TrimEnd(t) ==
    IF t # <<>> /\ t[Len(t)] \in WhiteSpace
    THEN TrimEnd(SubSeq(t, 1, Len(t) - 1)) ELSE t

Trim(t) == TrimEnd(TrimStart(t))

\* m.starts_with('/')
StartsWithSlash(m) == m # <<>> /\ Head(m) = "/"

\* m.splitn(2, ' ').collect(): split at the first space, if there is one.
SplitN2(m) ==
    LET sp == {i \in 1..Len(m) : m[i] = " "}
    IN  IF sp = {} THEN <<m>>
        ELSE LET k == CHOOSE i \in sp : \A j \in sp : i <= j
             IN  <<SubSeq(m, 1, k - 1), SubSeq(m, k + 1, Len(m))>>

\* The code point of a character that is not printable.
CodePoint(c) ==
    IF c = SoftHyphen THEN 173
    ELSE IF \E i \in DOMAIN C0Controls : C0Controls[i] = c
    THEN CHOOSE i \in DOMAIN C0Controls : C0Controls[i] = c
    ELSE 126 + (CHOOSE i \in DOMAIN C1Controls : C1Controls[i] = c)

\* The characters that core::unicode::printable::is_printable rejects: the
\* controls, the no-break space and the soft hyphen.
NotPrintable ==
    {SoftHyphen} \cup {C0Controls[i] : i \in DOMAIN C0Controls}
        \cup {C1Controls[i] : i \in DOMAIN C1Controls}

HexDigits == <<"0","1","2","3","4","5","6","7","8","9","a","b","c","d","e","f">>

\* format!("{:x}", n)
RECURSIVE ToHex(_)
ToHex(n) ==
    IF n < 16 THEN <<HexDigits[n + 1]>>
    ELSE ToHex(n \div 16) \o <<HexDigits[(n % 16) + 1]>>

\* char::escape_unicode: \u{..} with the code point in hexadecimal.
EscapeUnicode(c) == <<"\\", "u", "{">> \o ToHex(CodePoint(c)) \o <<"}">>

\* The {:?} form of a str without its quotes (char::escape_debug of each
\* character, the single quote left as it is): the double quote, the
\* backslash, \t, \r and \n get a backslash escape, every other character
\* that is not printable is written as \u{..}.
RECURSIVE EscapeDebug(_)
EscapeDebug(t) ==
    IF t = <<>> THEN <<>>
    ELSE LET c == Head(t)
             e == CASE c = "\"" -> <<"\\", "\"">>
                    [] c = "\\" -> <<"\\", "\\">>
                    [] c = "\n" -> <<"\\", "n">>
                    [] c = "\t" -> <<"\\", "t">>
                    [] c = "\r" -> <<"\\", "r">>
                    [] c \in NotPrintable \ {"\n", "\t", "\r"} -> EscapeUnicode(c)
                    [] OTHER    -> <<c>>
         IN  e \o EscapeDebug(Tail(t))

\* format!("!!! unknown command: {:?}", m)
UnknownCommandText(m) == UnknownCommand \o <<"\"">> \o EscapeDebug(m) \o <<"\"">>

\* The name and the text with no separator between them.
NamedTextBare(name, m) == name \o m

\* format!("{}: {}", name, m)
NamedText(name, m) == name \o <<":", " ">> \o m

\* ------------------------------------------------------------ session handlers
\* A handler of a session maps the actor s and its event to the actor after
\* it (st "Stopping" once ctx.stop() was called, "ListWait" once the /list
\* future was put in ctx.wait), the frames written to the client (out) and
\* the messages sent to the ChatServer (send).  The field res of the actor
\* is the result of the request it waits for with ctx.wait, from the moment
\* the ChatServer's handler returned it until the closure of the request
\* runs.

TextOut(t) == [kind |-> "text", body |-> t]

\* The ws::Message::Text arm with /list sent by do_send instead of awaited
\* with ctx.wait.
HandleTextNoWait(s, text) ==
    IF Trim(text) = CmdList
    THEN [s |-> s, out |-> <<>>, send |-> <<[op |-> "ListRooms", from |-> s.addr]>>]
    ELSE [s |-> s, out |-> <<>>, send |-> <<>>]

\* StreamHandler::handle, the ws::Message::Text arm.
HandleText(s, text) ==
    LET m == Trim(text) IN
    IF StartsWithSlash(m)
    THEN LET v == SplitN2(m) IN
         CASE v[1] = CmdList ->
                [s |-> [s EXCEPT !.st = "ListWait"], out |-> <<>>,
                 send |-> <<[op |-> "ListRooms", from |-> s.addr]>>]
           [] v[1] = CmdJoin ->
                IF Len(v) = 2
                THEN [s |-> [s EXCEPT !.room = v[2]], out |-> <<TextOut(Joined)>>,
                      send |-> <<[op |-> "Join", id |-> s.id, name |-> v[2]]>>]
                ELSE [s |-> s, out |-> <<TextOut(RoomNameRequired)>>, send |-> <<>>]
           [] v[1] = CmdName ->
                IF Len(v) = 2
                THEN [s |-> [s EXCEPT !.name = {v[2]}], out |-> <<>>, send |-> <<>>]
                ELSE [s |-> s, out |-> <<TextOut(NameRequired)>>, send |-> <<>>]
           [] OTHER ->
                [s |-> s, out |-> <<TextOut(UnknownCommandText(m))>>, send |-> <<>>]
    ELSE LET msg == IF s.name # {}
                    THEN NamedText(CHOOSE n \in s.name : TRUE, m)
                    ELSE m
         IN  [s |-> s, out |-> <<>>,
              send |-> <<[op |-> "ClientMessage", id |-> s.id, msg |-> msg,
                          room |-> s.room]>>]

\* StreamHandler::handle
StreamHandle(s, msg) ==
    CASE msg.kind = "Err" ->
           [s |-> [s EXCEPT !.st = "Stopping"], out |-> <<>>, send |-> <<>>]
      [] msg.kind = "Ping" ->
           [s |-> s, out |-> <<[kind |-> "pong", body |-> msg.body]>>, send |-> <<>>]
      [] msg.kind = "Pong" -> [s |-> s, out |-> <<>>, send |-> <<>>]
      [] msg.kind = "Text" -> HandleText(s, msg.body)
      [] msg.kind = "Binary" -> [s |-> s, out |-> <<>>, send |-> <<>>]
      [] msg.kind = "Close" ->
           [s |-> [s EXCEPT !.st = "Stopping"],
            out |-> <<[kind |-> "close", body |-> msg.body]>>, send |-> <<>>]
      [] msg.kind = "Continuation" ->
           [s |-> [s EXCEPT !.st = "Stopping"], out |-> <<>>, send |-> <<>>]
      [] msg.kind = "Nop" -> [s |-> s, out |-> <<>>, send |-> <<>>]

\* The closure WsChatSession::hb runs every HEARTBEAT_INTERVAL; `expired` is
\* whether Instant::now().duration_since(act.hb) > CLIENT_TIMEOUT.
HbInterval(s, expired) ==
    IF expired
    THEN [s |-> [s EXCEPT !.st = "Stopping"], out |-> <<>>,
          send |-> <<[op |-> "Disconnect", id |-> s.id]>>]
    ELSE [s |-> s, out |-> <<[kind |-> "ping", body |-> <<>>]>>, send |-> <<>>]

\* The /list response with one line less.
ListRoomsReplyShort(names) == [i \in 1..(Len(names) - 1) |-> TextOut(names[i])]

\* for room in rooms { ctx.text(room) }
ListRoomsReply(names) == [i \in DOMAIN names |-> TextOut(names[i])]

\* The closure the /list arm runs on the result of the ListRooms request:
\* Ok(rooms) is [ok |-> TRUE, rooms |-> rooms], an Err is [ok |-> FALSE].
\* With it the future of ctx.wait is done.
ListRoomsResponse(s, res) ==
    [s |-> [s EXCEPT !.st = "Active", !.res = {}],
     out |-> IF res.ok THEN ListRoomsReply(res.rooms) ELSE <<>>,
     send |-> <<>>]

\* The closure WsChatSession::started runs on the result of the Connect
\* request: Ok(id) is [ok |-> TRUE, id |-> id], an Err is [ok |-> FALSE].
ConnectResponse(s, res) ==
    IF res.ok THEN [s EXCEPT !.id = res.id, !.st = "Active", !.res = {}]
    ELSE [s EXCEPT !.st = "Stopping", !.res = {}]

\* Handler<server::Message>::handle: ctx.text(msg.0)
HandleMessage(s, msg) == [s |-> s, out |-> <<TextOut(msg)>>, send |-> <<>>]

\* Actor::started: the Connect request, awaited with ctx.wait.
SessionStarted(s) ==
    [s |-> [s EXCEPT !.st = "Connecting"], out |-> <<>>,
     send |-> <<[op |-> "Connect", addr |-> s.addr]>>]

\* Actor::stopping
SessionStopping(s) ==
    [s |-> [s EXCEPT !.st = "Stopped"], out |-> <<>>,
     send |-> <<[op |-> "Disconnect", id |-> s.id]>>]

\* The frames a client sends.
TextFrames ==
    { CmdList,
      CmdJoin \o <<" ">> \o Sports,
      CmdJoin \o <<" ">> \o Main,
      CmdJoin,
      CmdName \o <<" ">> \o Alice,
      CmdName,
      <<"/", "x", "\f", "y", "\f">>,
      <<"\f", " ">> \o Hello \o <<"\n">> }

Frames ==
    {[kind |-> "Text", body |-> t] : t \in TextFrames}
        \cup {[kind |-> "Ping", body |-> <<>>], [kind |-> "Close", body |-> <<>>]}
        \cup {[kind |-> k] : k \in {"Err", "Pong", "Binary", "Continuation", "Nop"}}

\* ------------------------------------------------------------ Init
\* WsChatSession as chat_route builds it, for the connection h; st is the
\* actor's lifecycle, addr its own address (ctx.address()), inbox the
\* frames of its stream that it has not handled yet and res the result it
\* waits for.  connected is no field of the code: it records that the
\* ChatServer has handled the Connect of this session.
NewSession(h) ==
    [st |-> "New", id |-> 0, room |-> Main, name |-> {}, addr |-> h, inbox |-> <<>>,
     res |-> {}, connected |-> FALSE]

\* ChatServer::new and AtomicUsize::new(0), with no session started yet.
InitWith(hs) ==
    /\ sessions = <<>>
    /\ rooms = MapPut(<<>>, Main, {})
    /\ visitor_count = 0
    /\ last = [op |-> "none"]
    /\ sent = EmptyBag
    /\ ctxout = <<>>
    /\ mailbox = <<>>
    /\ sess = [h \in hs |-> NewSession(h)]
    /\ pending = [h \in hs |-> <<>>]
    /\ open = TRUE

Init == InitWith(Handles)

\* ------------------------------------------------------------ steps
\* The ChatServer's fields after a handler returned r, having handled l.
Handled(r, l) ==
    /\ open /\ UNCHANGED open
    /\ sessions' = r.sessions
    /\ rooms' = r.rooms
    /\ visitor_count' = r.visitor_count
    /\ sent' = r.sent
    /\ last' = l

\* The texts the do_sends of one text (the bag b) give the Recipient h.
PartTo(b, h) ==
    LET to == {d \in BagToSet(b) : d[1] = h}
    IN  IF to = {} THEN <<>>
        ELSE LET d == CHOOSE x \in to : TRUE
             IN  [i \in 1..CopiesIn(d, b) |-> d[2]]

\* The texts a handler's do_sends give the Recipient h, in the order sent.
RECURSIVE SentTo(_, _)
SentTo(parts, h) ==
    IF parts = <<>> THEN <<>>
    ELSE PartTo(Head(parts), h) \o SentTo(Tail(parts), h)

\* A session on which ctx.stop() was called handles no server::Message any
\* more: what is or comes in its mailbox is lost.
Halted(s) == s.st \in {"Stopping", "Stopped"}

\* The do_sends of a handler that returned r reach the mailboxes of the
\* sessions.
Posted(r) ==
    /\ \A h \in DOMAIN sess :
           ~Halted(sess[h]) =>
               Len(pending[h]) + Len(SentTo(r.parts, h)) <= MaxPending
    /\ pending' = [h \in DOMAIN sess |->
                      IF Halted(sess[h]) THEN <<>>
                      ELSE pending[h] \o SentTo(r.parts, h)]

\* A request (send, awaited with ctx.wait) to a mailbox that is closed, or
\* that closes before the request is handled, ends with an Err.
Refused(s) ==
    IF s.st \in {"Connecting", "ListWait"} /\ s.res = {}
    THEN [s EXCEPT !.res = {[ok |-> FALSE]}]
    ELSE s

\* The session h after its handler of the event l returned r: its writes to
\* the client and its sends to the ChatServer; q is what is left in its
\* mailbox of server::Message.  A closed mailbox takes nothing: do_send
\* drops the message (its Err is ignored) and a request fails.  What the
\* handler sent, taken by the mailbox or not, is kept with the event (send).
SessionStep(h, r, l, q) ==
    /\ open => Len(mailbox) + Len(r.send) <= MaxMailbox
    /\ sess' = [sess EXCEPT ![h] = IF open THEN r.s ELSE Refused(r.s)]
    /\ mailbox' = IF open THEN mailbox \o r.send ELSE mailbox
    /\ ctxout' = r.out
    /\ last' = l @@ [send |-> r.send]
    /\ sent' = EmptyBag
    /\ pending' = [pending EXCEPT ![h] = IF Halted(r.s) THEN <<>> ELSE q]
    /\ UNCHANGED <<sessions, rooms, visitor_count, open>>

SessionDid(h, r, l) == SessionStep(h, r, l, pending[h])

\* ------------------------------------------------------------ sessions
\* The WsChatSession actors.  While a session waits for a response
\* (ctx.wait) it handles nothing else: no frame, no heartbeat tick and no
\* server::Message.

Started ==
    \E h \in DOMAIN sess :
        /\ sess[h].st = "New"
        /\ SessionDid(h, SessionStarted(sess[h]), [op |-> "started", h |-> h])

\* The closure of started() runs on the response to the Connect.
ConnectReply ==
    \E h \in DOMAIN sess :
        /\ sess[h].st = "Connecting"
        /\ sess[h].res # {}
        /\ LET res == CHOOSE x \in sess[h].res : TRUE IN
           SessionDid(h, [s |-> ConnectResponse(sess[h], res), out |-> <<>>,
                          send |-> <<>>],
                      [op |-> "connected", h |-> h, res |-> res])

\* The closure of the /list arm runs on the response to the ListRooms.
ListReply ==
    \E h \in DOMAIN sess :
        /\ sess[h].st = "ListWait"
        /\ sess[h].res # {}
        /\ LET res == CHOOSE x \in sess[h].res : TRUE IN
           SessionDid(h, ListRoomsResponse(sess[h], res),
                      [op |-> "listed", h |-> h, res |-> res])

\* The Active session h handles the frame msg.
FrameOf(h, msg) ==
    /\ sess[h].st = "Active"
    /\ SessionDid(h, StreamHandle(sess[h], msg),
                  [op |-> "frame", h |-> h, msg |-> msg])

Frame == \E h \in DOMAIN sess, msg \in Frames : FrameOf(h, msg)

\* The Active session h handles the oldest server::Message of its mailbox.
Deliver ==
    \E h \in DOMAIN sess :
        /\ sess[h].st = "Active"
        /\ pending[h] # <<>>
        /\ SessionStep(h, HandleMessage(sess[h], Head(pending[h])),
                       [op |-> "Message", h |-> h, text |-> Head(pending[h])],
                       Tail(pending[h]))

Heartbeat ==
    \E h \in DOMAIN sess, expired \in BOOLEAN :
        /\ sess[h].st = "Active"
        /\ SessionDid(h, HbInterval(sess[h], expired),
                      [op |-> "hb", h |-> h, expired |-> expired])

Stopping ==
    \E h \in DOMAIN sess :
        /\ sess[h].st = "Stopping"
        /\ SessionDid(h, SessionStopping(sess[h]), [op |-> "stopping", h |-> h])

\* ------------------------------------------------------------ ChatServer
\* The ChatServer handles the message at the head of its mailbox.  A Connect
\* or ListRooms was sent with send(): the handler's result goes back to the
\* session, which takes it up in a step of its own if it still waits.

\* The session a gets the result res of the request it waits for in the
\* state st; a session that waits no more gets nothing.
Respond(a, st, res) ==
    sess' = [sess EXCEPT ![a].res = IF sess[a].st = st THEN {res} ELSE @]

\* The session a, which waits for it, gets the result res of its Connect,
\* which the ChatServer has now handled.
Registers(a, res) ==
    sess' = [sess EXCEPT ![a].res = IF sess[a].st = "Connecting" THEN {res} ELSE @,
                         ![a].connected = TRUE]

\* Handler<Connect>::handle of the Connect at the head of the mailbox.
SConnect ==
    /\ mailbox # <<>> /\ Head(mailbox).op = "Connect"
    /\ \E id \in Ids :
        LET m == Head(mailbox)
            r == HandleConnect(sessions, rooms, visitor_count, m.addr, id)
        IN
        /\ Handled(r, [op |-> "Connect", addr |-> m.addr, id |-> id])
        /\ Posted(r)
        /\ Registers(m.addr, [ok |-> TRUE, id |-> r.ret])
    /\ mailbox' = Tail(mailbox)
    /\ ctxout' = <<>>

SDisconnect ==
    /\ mailbox # <<>> /\ Head(mailbox).op = "Disconnect"
    /\ LET r == HandleDisconnect(sessions, rooms, visitor_count, Head(mailbox).id) IN
       Handled(r, Head(mailbox)) /\ Posted(r)
    /\ mailbox' = Tail(mailbox)
    /\ ctxout' = <<>>
    /\ UNCHANGED sess

SClientMessage ==
    /\ mailbox # <<>> /\ Head(mailbox).op = "ClientMessage"
    /\ LET m == Head(mailbox)
           r == HandleClientMessage(sessions, rooms, visitor_count, m.id, m.msg, m.room)
       IN  Handled(r, m) /\ Posted(r)
    /\ mailbox' = Tail(mailbox)
    /\ ctxout' = <<>>
    /\ UNCHANGED sess

SListRooms ==
    /\ mailbox # <<>> /\ Head(mailbox).op = "ListRooms"
    /\ \E order \in Orders(DOMAIN rooms) :
        LET m == Head(mailbox)
            r == HandleListRooms(sessions, rooms, visitor_count, order)
        IN
        /\ Handled(r, [op |-> "ListRooms", from |-> m.from, ret |-> r.ret])
        /\ Posted(r)
        /\ Respond(m.from, "ListWait", [ok |-> TRUE, rooms |-> r.ret])
    /\ mailbox' = Tail(mailbox)
    /\ ctxout' = <<>>

SJoin ==
    /\ mailbox # <<>> /\ Head(mailbox).op = "Join"
    /\ LET m == Head(mailbox)
           r == HandleJoin(sessions, rooms, visitor_count, m.id, m.name)
       IN  Handled(r, m) /\ Posted(r)
    /\ mailbox' = Tail(mailbox)
    /\ ctxout' = <<>>
    /\ UNCHANGED sess

\* The Connects the ChatServer has handled: each left the counter one higher.
Connected == Cardinality({h \in DOMAIN sess : sess[h].connected})

\* The /count/ route: count.fetch_add(1, Ordering::SeqCst), and the count
\* before it in the response.
get_count ==
    /\ visitor_count - Connected < MaxCounts
    /\ visitor_count' = visitor_count + 1
    /\ last' = [op |-> "get_count", current_count |-> visitor_count]
    /\ sent' = EmptyBag
    /\ ctxout' = <<>>
    /\ UNCHANGED <<sessions, rooms, mailbox, sess, pending, open>>

\* ------------------------------------------------------------ system level
SysNext ==
    \/ Started \/ ConnectReply \/ ListReply \/ Frame \/ Deliver \/ Heartbeat
    \/ Stopping \/ get_count
    \/ SConnect \/ SDisconnect \/ SClientMessage \/ SListRooms \/ SJoin

SysSpec == Init /\ [][SysNext]_vars

\* ------------------------------------------------------------ broker level
\* The ChatServer alone: the sessions start and take their ids, and the
\* commands that carry an id come in any order, each with an id that some
\* session holds.  The sessions handle the server::Messages sent to them.

\* The ids that sessions hold: each the result of a Connect.
IssuedIds == {sess[h].id : h \in {a \in DOMAIN sess : sess[a].st = "Active"}}

BDisconnect ==
    \E id \in IssuedIds :
        LET r == HandleDisconnect(sessions, rooms, visitor_count, id) IN
        /\ Handled(r, [op |-> "Disconnect", id |-> id])
        /\ Posted(r)
        /\ ctxout' = <<>>
        /\ UNCHANGED <<mailbox, sess>>

\* A ClientMessage for the room.
BClientMessageIn(room) ==
    \E id \in IssuedIds, msg \in Texts :
        LET r == HandleClientMessage(sessions, rooms, visitor_count, id, msg, room) IN
        /\ Handled(r, [op |-> "ClientMessage", id |-> id, msg |-> msg, room |-> room])
        /\ Posted(r)
        /\ ctxout' = <<>>
        /\ UNCHANGED <<mailbox, sess>>

BClientMessage == \E room \in RoomNames : BClientMessageIn(room)

BListRooms ==
    \E order \in Orders(DOMAIN rooms) :
        LET r == HandleListRooms(sessions, rooms, visitor_count, order) IN
        /\ Handled(r, [op |-> "ListRooms", ret |-> order])
        /\ Posted(r)
        /\ ctxout' = <<>>
        /\ UNCHANGED <<mailbox, sess>>

\* A Join of the room called name.
BJoinTo(name) ==
    \E id \in IssuedIds :
        LET r == HandleJoin(sessions, rooms, visitor_count, id, name) IN
        /\ Handled(r, [op |-> "Join", id |-> id, name |-> name])
        /\ Posted(r)
        /\ ctxout' = <<>>
        /\ UNCHANGED <<mailbox, sess>>

BJoin == \E name \in RoomNames : BJoinTo(name)

Next ==
    \/ Started \/ SConnect \/ ConnectReply \/ Deliver
    \/ BDisconnect \/ BClientMessage \/ BListRooms \/ BJoin

Spec == Init /\ [][Next]_vars

\* Two clients.
DuoInit == InitWith({1, 2})

\* Clients that join rooms and send text, and do not leave.
TalkNext ==
    \/ Started \/ SConnect \/ ConnectReply \/ Deliver
    \/ BJoin \/ BClientMessage

TalkSpec == DuoInit /\ [][TalkNext]_vars

\* Clients that leave, and that join and send text in the one room Sports:
\* commands of a client that left arrive late.
GoneNext ==
    \/ Started \/ SConnect \/ ConnectReply \/ Deliver
    \/ BDisconnect \/ BJoinTo(Sports) \/ BClientMessageIn(Sports)

GoneSpec == DuoInit /\ [][GoneNext]_vars

\* ------------------------------------------------------------ rooms
\* The system with one more session than Handles and clients that only join
\* rooms or send plain text: the client of session 1 joins Main (again), the
\* clients of the other sessions in Handles join Sports, and the client of
\* the last session sends plain text.
RoomFrames ==
    {[kind |-> "Text", body |-> t] :
        t \in {CmdJoin \o <<" ">> \o Sports, CmdJoin \o <<" ">> \o Main}}

RoomFrame ==
    \/ FrameOf(1, [kind |-> "Text", body |-> CmdJoin \o <<" ">> \o Main])
    \/ \E h \in Handles \ {1} :
           FrameOf(h, [kind |-> "Text", body |-> CmdJoin \o <<" ">> \o Sports])
    \/ FrameOf(MaxSessions + 1, [kind |-> "Text", body |-> Hello])

RoomInit == InitWith(1..(MaxSessions + 1))

RoomNext ==
    \/ Started \/ ConnectReply \/ RoomFrame \/ Deliver
    \/ SConnect \/ SClientMessage \/ SJoin

RoomSpec == RoomInit /\ [][RoomNext]_vars

\* ------------------------------------------------------------ claims
\* The step in which the ChatServer handles the Connect at the head of its
\* mailbox and returns the id last'.id.
ConnectStep ==
    /\ mailbox # <<>> /\ Head(mailbox).op = "Connect"
    /\ mailbox' = Tail(mailbox) /\ open'

\* C1: in every reachable state every id in any room's membership set is a
\* key of the session registry.  (The claim as stated; the code breaks it.)
C1_MembersRegistered ==
    \A n \in DOMAIN rooms : rooms[n] \subseteq DOMAIN sessions

\* C2: right after Disconnect(id) was handled, id is absent from the registry
\* and from every room.  (The claim as stated; the code breaks it.)
C2_AbsentAfterDisconnect ==
    last.op = "Disconnect" =>
        /\ last.id \notin DOMAIN sessions
        /\ \A n \in DOMAIN rooms : last.id \notin rooms[n]

\* C3: handling Disconnect(id) for an id that is not in the registry leaves
\* the registry and every room's membership unchanged and sends nothing: no
\* session's mailbox gets a text.
C3_DisconnectIdempotent ==
    [][(last'.op = "Disconnect" /\ last'.id \notin DOMAIN sessions) =>
           /\ sessions' = sessions /\ rooms' = rooms
           /\ sent' = EmptyBag /\ pending' = pending]_vars

\* C3 witness: a Disconnect was handled for an unregistered id that a room
\* still holds (had the handler cleaned the rooms, the room would not hold it).
C3_Witness ==
    /\ last.op = "Disconnect"
    /\ last.id \notin DOMAIN sessions
    /\ \E n \in DOMAIN rooms : last.id \in rooms[n]

\* C4: right after Join(id, R) was handled for a registered id, the id is a
\* member of room R and of no other room.
C4_JoinExclusive ==
    (last.op = "Join" /\ last.id \in DOMAIN sessions) =>
        RoomsHolding(rooms, last.id) = {last.name}

\* C4 witness: a registered id joined Sports while Main has another member.
C4_Witness ==
    /\ last.op = "Join"
    /\ last.id \in DOMAIN sessions
    /\ last.name = Sports
    /\ rooms[Main] # {}

\* C5: handling ClientMessage(id, text, R) for an existing room R sends text
\* exactly once to every registered member of R other than id, at the end
\* of that session's mailbox, and sends nothing else: nothing to id, nothing
\* to a session outside R.
C5_BroadcastExclusion ==
    [][(last'.op = "ClientMessage" /\ last'.room \in DOMAIN rooms) =>
        LET c == last'
            To(h) == \E id \in rooms[c.room] :
                         id # c.id /\ id \in DOMAIN sessions /\ sessions[id] = h
        IN
        /\ BagToSet(sent') \subseteq (DOMAIN sess) \X {c.msg}
        /\ \A h \in DOMAIN sess :
               /\ CopiesIn(<<h, c.msg>>, sent') = IF To(h) THEN 1 ELSE 0
               /\ pending'[h] = IF To(h) THEN Append(pending[h], c.msg)
                                ELSE pending[h]
        /\ c.id \in DOMAIN sessions =>
               CopiesIn(<<sessions[c.id], c.msg>>, sent') = 0]_vars

\* C5 witness: a registered member of the room sent a message that another
\* member received.
C5_Witness ==
    /\ last.op = "ClientMessage"
    /\ last.room \in DOMAIN rooms
    /\ last.id \in DOMAIN sessions
    /\ last.id \in rooms[last.room]
    /\ sent # EmptyBag
    /\ \E h \in DOMAIN sess :
           /\ CopiesIn(<<h, last.msg>>, sent) = 1
           /\ pending[h] # <<>> /\ pending[h][Len(pending[h])] = last.msg

\* C6: the id a Connect returns is not a key of the registry when the Connect
\* is handled.  (The claim as stated; the code breaks it.)
C6_FreshId ==
    [][ConnectStep => last'.id \notin DOMAIN sessions]_vars

\* C7: right after Connect(handle) returned id, the registry maps id to the
\* handle, id is a member of Main and of no other room, and the registry and
\* memberships of all other ids are unchanged.  (The claim as stated; the
\* code breaks it.)
C7_ConnectEffect ==
    [][ConnectStep =>
          LET id == last'.id IN
          /\ id \in DOMAIN sessions' /\ sessions'[id] = last'.addr
          /\ RoomsHolding(rooms', id) = {Main}
          /\ DOMAIN sessions' \ {id} = DOMAIN sessions \ {id}
          /\ \A j \in DOMAIN sessions \ {id} : sessions'[j] = sessions[j]
          /\ DOMAIN rooms' = DOMAIN rooms
          /\ \A n \in DOMAIN rooms : rooms'[n] \ {id} = rooms[n] \ {id}]_vars

\* C8: handling Join(id, R) for an id that is not in the registry leaves the
\* registry, the room names and every membership unchanged and sends no
\* notice.  (The claim as stated; the code breaks it.)
C8_JoinUnknownNoop ==
    [][(last'.op = "Join" /\ last'.id \notin DOMAIN sessions) =>
           (sessions' = sessions /\ rooms' = rooms /\ sent' = EmptyBag)]_vars

\* C9: handling ClientMessage(id, text, R) for a room name R that does not
\* exist sends nothing (no session's mailbox gets a text), does not create
\* R, and leaves the registry and all memberships unchanged.
C9_UnknownRoomDropped ==
    [][(last'.op = "ClientMessage" /\ last'.room \notin DOMAIN rooms) =>
           /\ sessions' = sessions /\ rooms' = rooms
           /\ sent' = EmptyBag /\ pending' = pending]_vars

\* C9 witness: a message for a room that does not exist was handled while a
\* session was registered in Main.
C9_Witness ==
    /\ last.op = "ClientMessage"
    /\ last.room \notin DOMAIN rooms
    /\ \E id \in rooms[Main] : id \in DOMAIN sessions

\* C10: once a session has issued /join R and the ChatServer has handled the
\* Join, a plain-text message that a peer in another room R' sends is not
\* delivered to that session as long as it does not join R'.  (The claim as
\* stated; the code breaks it.)  The session j below is in a room other than
\* the default, so it has issued a /join, and no Join of its id is waiting.
C10_RoomIsolation ==
    \A j \in DOMAIN sess :
        (/\ last.op = "ClientMessage"
         /\ sess[j].st = "Active"
         /\ sess[j].room # Main
         /\ \A i \in DOMAIN mailbox :
                mailbox[i].op = "Join" => mailbox[i].id # sess[j].id
         /\ last.room # sess[j].room
         /\ \E p \in DOMAIN sess \ {j} :
                sess[p].st = "Active" /\ sess[p].id = last.id /\ sess[p].room = last.room)
        => CopiesIn(<<j, last.msg>>, sent) = 0

\* ------------------------------------------------------------ heartbeat
\* The system with sessions that stop only because their heartbeat check
\* found the client silent for longer than CLIENT_TIMEOUT.
HbNext ==
    \/ Started \/ ConnectReply \/ Deliver \/ Heartbeat \/ Stopping
    \/ SConnect \/ SDisconnect

\* One more session than Handles: one that times out, one that stays and one
\* that connects later.
HbInit == InitWith(1..(MaxSessions + 1))

HbSpec == HbInit /\ [][HbNext]_vars

\* The step in which the ChatServer handles the Disconnect at the head of its
\* mailbox.
DisconnectStep ==
    /\ mailbox # <<>> /\ Head(mailbox).op = "Disconnect"
    /\ mailbox' = Tail(mailbox) /\ open'

\* C11: when the heartbeat check of an Active session finds the client timed
\* out, the Disconnect it sends removes the session's id from the registry
\* and from every room and gives every session remaining in the room it was
\* in exactly one "Someone Disconnected!!"; the second Disconnect, sent by the
\* stopping hook, adds no further notice.  (The claim as stated; the code
\* breaks it.)
C11_OneDepartureNotice ==
    [][/\ (last.op = "hb" /\ last.expired /\ Len(mailbox) = 1 /\ DisconnectStep) =>
            LET id == Head(mailbox).id IN
            /\ id \notin DOMAIN sessions'
            /\ RoomsHolding(rooms', id) = {}
            /\ \A n \in RoomsHolding(rooms, id) :
                   \A m \in (rooms[n] \cap DOMAIN sessions) \ {id} :
                       CopiesIn(<<sessions[m], SomeoneDisconnected>>, sent') = 1
       /\ (last.op = "stopping" /\ Len(mailbox) = 1 /\ DisconnectStep) =>
            sent' = EmptyBag]_vars

\* The error text of a /join without a room name, as the protocol gives it.
RoomNameIsRequired == <<"!","!","!"," ","r","o","o","m"," ","n","a","m","e"," ","i","s"," ","r","e","q","u","i","r","e","d","!","!">>

\* One client, whose session handles every kind of frame.
SoloInit == InitWith({1})

SoloSpec == SoloInit /\ [][SysNext]_vars

\* C12: an Active session that handles the text frame "/join" with no
\* argument writes exactly the text "!!! room name is required!!" to its
\* client, keeps its room, sends nothing to the ChatServer and stays Active.
\* (The claim as stated; the code breaks it.)
C12_JoinWithoutRoom ==
    [][\A h \in DOMAIN sess :
          (/\ sess[h].st = "Active"
           /\ last'.op = "frame" /\ last'.h = h
           /\ last'.msg.kind = "Text" /\ Trim(last'.msg.body) = CmdJoin) =>
              /\ ctxout' = <<TextOut(RoomNameIsRequired)>>
              /\ sess'[h].room = sess[h].room
              /\ mailbox' = mailbox
              /\ sess'[h].st = "Active"]_vars

\* ------------------------------------------------------------ /list
\* The system with the frames of each session's stream queued until the
\* session handles them; the clients list and join rooms, send plain text and
\* ping.
MaxInbox == 2

ListFrames ==
    {[kind |-> "Text", body |-> t] : t \in {CmdList, CmdJoin \o <<" ">> \o Sports, Hello}}
        \cup {[kind |-> "Ping", body |-> <<>>]}

\* A frame arrives on the stream of a session that has not stopped.
Arrive ==
    \E h \in DOMAIN sess, msg \in ListFrames :
        /\ sess[h].st \in {"Connecting", "Active", "ListWait"}
        /\ Len(sess[h].inbox) < MaxInbox
        /\ sess' = [sess EXCEPT ![h].inbox = Append(@, msg)]
        /\ UNCHANGED <<sessions, rooms, visitor_count, last, sent, mailbox, ctxout,
                       pending, open>>

\* An Active session handles the oldest frame of its stream.
QFrame ==
    \E h \in DOMAIN sess :
        /\ sess[h].st = "Active"
        /\ sess[h].inbox # <<>>
        /\ LET msg == Head(sess[h].inbox) IN
           SessionDid(h, StreamHandle([sess[h] EXCEPT !.inbox = Tail(@)], msg),
                      [op |-> "frame", h |-> h, msg |-> msg])

ListNext ==
    \/ Started \/ ConnectReply \/ ListReply \/ Arrive \/ QFrame \/ Deliver
    \/ SConnect \/ SClientMessage \/ SListRooms \/ SJoin

\* One client: what the claims on /list say is about a session and its own
\* stream.
ListInit == InitWith({1})

ListSpec == ListInit /\ [][ListNext]_vars

\* The ListRooms requests of session h that the ChatServer has not handled.
InFlight(h) ==
    Cardinality({i \in DOMAIN mailbox :
                    mailbox[i].op = "ListRooms" /\ mailbox[i].from = h})

\* C13: while a session waits for the response to its ListRooms (the
\* request in the ChatServer's mailbox, or its result on the way back), the
\* session handles no frame of its stream and no server::Message, so it has
\* at most one ListRooms in flight; the frames that arrive meanwhile are kept
\* and every frame handled is the oldest one not yet handled.
C13_ListBackpressure ==
    [][\A h \in DOMAIN sess :
          /\ InFlight(h) <= 1
          /\ InFlight(h) = 1 => (sess[h].st = "ListWait" /\ sess[h].res = {})
          /\ sess[h].st = "ListWait" => (InFlight(h) = 1 \/ sess[h].res # {})
          /\ sess[h].st = "ListWait" =>
                /\ Len(sess'[h].inbox) >= Len(sess[h].inbox)
                /\ SubSeq(sess'[h].inbox, 1, Len(sess[h].inbox)) = sess[h].inbox
                /\ Len(pending'[h]) >= Len(pending[h])
                /\ SubSeq(pending'[h], 1, Len(pending[h])) = pending[h]
          /\ \/ sess'[h].inbox = sess[h].inbox
             \/ \E msg \in ListFrames : sess'[h].inbox = Append(sess[h].inbox, msg)
             \/ /\ sess[h].inbox # <<>>
                /\ sess'[h].inbox = Tail(sess[h].inbox)
                /\ last'.op = "frame" /\ last'.h = h
                /\ last'.msg = Head(sess[h].inbox)]_vars

\* C13 witness: a session waits for the response to /list while two frames
\* have arrived on its stream, in an order that shows, and a server::Message
\* is in its mailbox.
C13_Witness ==
    \E h \in DOMAIN sess :
        /\ sess[h].st = "ListWait"
        /\ InFlight(h) = 1
        /\ Len(sess[h].inbox) = 2
        /\ sess[h].inbox[1] # sess[h].inbox[2]
        /\ pending[h] # <<>>

\* C14: the response to /list is one text frame per room that exists when
\* the ChatServer handles the ListRooms, each name once, in the order of the
\* returned list, and nothing else: the list the handler returns holds each
\* room name once and goes to the waiting session, whose closure writes one
\* text frame per name of it, in its order; the /list frame itself writes
\* nothing, and with only the default room the response is the one line
\* "Main".
C14_ListResponse ==
    /\ last.op = "ListRooms" =>
          /\ Len(last.ret) = Cardinality(DOMAIN rooms)
          /\ {last.ret[i] : i \in DOMAIN last.ret} = DOMAIN rooms
          /\ sess[last.from].res = {[ok |-> TRUE, rooms |-> last.ret]}
          /\ ctxout = <<>>
    /\ last.op = "listed" =>
          /\ last.res.ok
          /\ Len(ctxout) = Len(last.res.rooms)
          /\ \A i \in DOMAIN ctxout :
                 ctxout[i] = [kind |-> "text", body |-> last.res.rooms[i]]
          /\ last.res.rooms = <<Main>> => ctxout = <<[kind |-> "text", body |-> Main]>>
    /\ (last.op = "frame" /\ last.msg.kind = "Text" /\ Trim(last.msg.body) = CmdList) =>
          ctxout = <<>>

\* C14 witness: the response to a /list handled while two rooms existed was
\* written to the client.
C14_Witness ==
    /\ last.op = "listed"
    /\ {last.res.rooms[i] : i \in DOMAIN last.res.rooms} = {Main, Sports}
    /\ Len(ctxout) = 2

\* ------------------------------------------------------------ /name
\* Two clients.  The first sets a name, joins a room and sends plain text;
\* the second, its peer, only listens.
NameFrames ==
    {[kind |-> "Text", body |-> t] :
        t \in {CmdName \o <<" ">> \o Alice, CmdName, CmdJoin \o <<" ">> \o Sports,
               Hello, <<"\f", " ">> \o Hello \o <<"\n">>}}

NameFrame == \E msg \in NameFrames : FrameOf(1, msg)

NameNext ==
    \/ Started \/ ConnectReply \/ NameFrame \/ Deliver
    \/ SConnect \/ SClientMessage \/ SJoin

NameInit == InitWith({1, 2})

NameSpec == NameInit /\ [][NameNext]_vars

\* C15: a session that handles a plain-text frame sends the ChatServer one
\* ClientMessage with its id, its current room and, T being the frame's text
\* trimmed, the text "N: T" if it handled "/name N" before and no other /name
\* since, else T unprefixed; "/name N" sets the name and sends nothing, and
\* nothing else changes the name.  The ChatServer hands the text on
\* unchanged: every registered member of the room with another id gets it
\* once, no other text is sent, and the session that handles the
\* server::Message writes that text to its client as one text frame.
C15_NamePrefix ==
    [][/\ \A h \in DOMAIN sess :
            LET isFrame == /\ sess[h].st = "Active"
                           /\ last'.op = "frame" /\ last'.h = h
                           /\ last'.msg.kind = "Text"
                m == Trim(last'.msg.body)
                v == SplitN2(m)
            IN
            /\ (isFrame /\ ~StartsWithSlash(m)) =>
                  /\ sess'[h] = sess[h]
                  /\ mailbox' = Append(mailbox,
                        [op |-> "ClientMessage", id |-> sess[h].id, room |-> sess[h].room,
                         msg |-> IF sess[h].name = {} THEN m
                                 ELSE (CHOOSE n \in sess[h].name : TRUE) \o <<":", " ">> \o m])
            /\ (isFrame /\ v[1] = CmdName /\ Len(v) = 2) =>
                  /\ sess'[h].name = {v[2]}
                  /\ mailbox' = mailbox
            /\ sess'[h].name # sess[h].name => (isFrame /\ v[1] = CmdName /\ Len(v) = 2)
       /\ (mailbox # <<>> /\ Head(mailbox).op = "ClientMessage" /\ mailbox' = Tail(mailbox)) =>
            LET c == Head(mailbox) IN
            /\ BagToSet(sent') \subseteq (DOMAIN sess) \X {c.msg}
            /\ c.room \in DOMAIN rooms =>
                  \A id \in (rooms[c.room] \cap DOMAIN sessions) \ {c.id} :
                      CopiesIn(<<sessions[id], c.msg>>, sent') = 1
            /\ \A h \in DOMAIN sess :
                  pending'[h] = IF CopiesIn(<<h, c.msg>>, sent') = 1
                                THEN Append(pending[h], c.msg) ELSE pending[h]
       /\ \A h \in DOMAIN sess :
            (pending[h] # <<>> /\ pending'[h] = Tail(pending[h])) =>
                ctxout' = <<[kind |-> "text", body |-> Head(pending[h])]>>]_vars

\* C15 witness: the peer of the session named Alice, in the same room,
\* handled the server::Message "Alice: hello" and wrote it to its client.
C15_Witness ==
    /\ last.op = "Message"
    /\ last.text = <<"A","l","i","c","e",":"," ","h","e","l","l","o">>
    /\ ctxout = <<[kind |-> "text", body |-> last.text]>>
    /\ \E h \in DOMAIN sess \ {last.h} :
          sess[h].name = {Alice} /\ sess[h].room = sess[last.h].room

\* ------------------------------------------------------------ visitor count
\* The ChatServer handling the Connects of the sessions while the /count/
\* route increments the shared counter.
CountNext ==
    Started \/ SConnect \/ ConnectReply \/ Deliver \/ get_count

CountSpec == Init /\ [][CountNext]_vars

\* The number a decimal text stands for.
RECURSIVE FromDecimal(_)
FromDecimal(t) ==
    IF t = <<>> THEN 0
    ELSE 10 * FromDecimal(SubSeq(t, 1, Len(t) - 1))
            + (CHOOSE d \in 0..9 : DecimalDigits[d + 1] = t[Len(t)])

\* The numbers n of the "Total visitors <n>" notices in the bag b of sends.
VisitorNumbers(b) ==
    {FromDecimal(SubSeq(d[2], Len(TotalVisitors) + 1, Len(d[2]))) :
        d \in {x \in BagToSet(b) :
                  /\ Len(x[2]) > Len(TotalVisitors)
                  /\ SubSeq(x[2], 1, Len(TotalVisitors)) = TotalVisitors}}

\* C16: the n of "Total visitors <n>" strictly increases from one Connect to
\* the next, also with /count/ requests in between.  Every notice of a
\* Connect carries the value the counter had before the Connect, the Connect
\* leaves the counter one higher, and no step (a /count/ request included)
\* lowers the counter; a Connect handled right after another carries a
\* larger n than any notice of the one before.
C16_VisitorsIncrease ==
    [][/\ visitor_count' >= visitor_count
       /\ ConnectStep =>
            /\ VisitorNumbers(sent') \subseteq {visitor_count}
            /\ visitor_count' = visitor_count + 1
            /\ last.op = "Connect" =>
                  \A n \in VisitorNumbers(sent), k \in VisitorNumbers(sent') : n < k]_vars

\* C16 witness: a Connect was handled after an earlier Connect and a /count/
\* request, and its notice with n = 2 went to both sessions.
C16_Witness ==
    /\ last.op = "Connect"
    /\ visitor_count = 3
    /\ VisitorNumbers(sent) = {2}
    /\ \A h \in Handles : CopiesIn(<<h, TotalVisitorsText(2)>>, sent) = 1

\* ------------------------------------------------------------ stopping
\* The system with two clients: the first ends its connection with a close
\* frame, a protocol error or a continuation frame, the second joins a room;
\* the heartbeat of either may find its client timed out.
StopFrames ==
    {[kind |-> "Close", body |-> <<>>], [kind |-> "Err"], [kind |-> "Continuation"]}

StopFrame ==
    \/ \E msg \in StopFrames : FrameOf(1, msg)
    \/ FrameOf(2, [kind |-> "Text", body |-> CmdJoin \o <<" ">> \o Sports])

StopNext ==
    \/ Started \/ ConnectReply \/ StopFrame \/ Deliver \/ Heartbeat \/ Stopping
    \/ SConnect \/ SDisconnect \/ SJoin

\* The ChatServer handles the message at the head of its mailbox.
BrokerStep == SConnect \/ SDisconnect \/ SJoin

\* The ChatServer keeps handling its mailbox, a session takes up the
\* response it waits for and the server::Messages in its mailbox, and an
\* actor on which ctx.stop() was called gets its stopping hook run: do_send
\* does not wait for room in the mailbox, so the hook is not held up for ever
\* by the other sessions' sends.
StopSpec ==
    /\ Init /\ [][StopNext]_vars
    /\ WF_vars(BrokerStep)
    /\ WF_vars(ConnectReply)
    /\ WF_vars(Deliver)
    /\ SF_vars(Stopping)

\* The id of session h is in neither the registry nor a room.
IdAbsent(h) ==
    /\ sess[h].id \notin DOMAIN sessions
    /\ RoomsHolding(rooms, sess[h].id) = {}

\* C17: a session that leaves Active becomes Stopped only by its stopping
\* hook, which sends Disconnect with the session's id; a Stopped session
\* does nothing any more; and, the ChatServer handling its mailbox, from the
\* moment the session stops its id is eventually absent from the registry
\* and from every room.  (The claim as stated; the code breaks it.)
C17_StoppedIsRemoved ==
    /\ [][\A h \in DOMAIN sess :
            /\ (sess[h].st # "Stopped" /\ sess'[h].st = "Stopped") =>
                  /\ sess[h].st = "Stopping"
                  /\ mailbox' = Append(mailbox, [op |-> "Disconnect", id |-> sess[h].id])
            /\ sess[h].st = "Stopped" => sess'[h] = sess[h]]_vars
    /\ \A h \in Handles : (sess[h].st = "Stopping") ~> IdAbsent(h)

\* ------------------------------------------------------------ after Disconnect
\* The Recipients the registry holds.
Registered == {sessions[id] : id \in DOMAIN sessions}

\* The session h was registered by a Connect and its Recipient is in the
\* registry no more: a Disconnect removed it, or the Connect of another
\* session that drew the same id put that session in its place.
Gone(h) == sess[h].connected /\ h \notin Registered

\* C18: the Disconnect of a registered id takes the id's Recipient out of the
\* registry and sends nothing to it, and from then on no operation of the
\* ChatServer (a ClientMessage, a Join of the same id that arrives late
\* included, a Connect, a Disconnect) sends anything to that Recipient, whose
\* mailbox gets no text any more, or registers it again.
C18_NoDeliveryAfterDisconnect ==
    [][\A h \in DOMAIN sess :
          (\/ Gone(h)
           \/ /\ last'.op = "Disconnect"
              /\ last'.id \in DOMAIN sessions /\ sessions[last'.id] = h) =>
              /\ h \notin {sessions'[id] : id \in DOMAIN sessions'}
              /\ \A d \in BagToSet(sent') : d[1] # h
              /\ Len(pending'[h]) <= Len(pending[h])]_vars

\* C18 witness: after the Disconnect of a session the ChatServer handled a
\* Join with the session's id, which put the id into a room and sent the
\* notice to the other member.
C18_Witness ==
    \E h \in DOMAIN sess :
        /\ Gone(h)
        /\ last.op = "Join" /\ last.id = sess[h].id
        /\ last.id \notin DOMAIN sessions
        /\ last.id \in rooms[last.name]
        /\ sent # EmptyBag

\* ------------------------------------------------------------ handshake
\* The system whose ChatServer may stop, with two clients that send plain
\* text and close their connections; the first also joins a room.

\* The ChatServer stops (main returns and drops the System the actor was
\* started in): its mailbox closes for good, the messages in it are dropped
\* unhandled, and the requests among them end with an Err.  The registry
\* and the rooms are kept as they were at that moment.
ServerStopped ==
    /\ open
    /\ open' = FALSE
    /\ mailbox' = <<>>
    /\ sess' = [h \in DOMAIN sess |-> Refused(sess[h])]
    /\ last' = [op |-> "closed"]
    /\ sent' = EmptyBag
    /\ ctxout' = <<>>
    /\ UNCHANGED <<sessions, rooms, visitor_count, pending>>

HandshakeFrames ==
    {[kind |-> "Text", body |-> Hello], [kind |-> "Close", body |-> <<>>]}

HandshakeFrame ==
    \/ FrameOf(1, [kind |-> "Text", body |-> CmdJoin \o <<" ">> \o Sports])
    \/ \E h \in DOMAIN sess, msg \in HandshakeFrames : FrameOf(h, msg)

HandshakeNext ==
    \/ Started \/ ConnectReply \/ Stopping \/ HandshakeFrame \/ Deliver
    \/ SConnect \/ SDisconnect \/ SClientMessage \/ SJoin \/ ServerStopped

HandshakeSpec == DuoInit /\ [][HandshakeNext]_vars

\* The ids that go with the commands (Join, ClientMessage, Disconnect) the
\* most recent handler of a session sent to the ChatServer with do_send,
\* whether the ChatServer's mailbox took them or not.
CommandIds ==
    IF "send" \in DOMAIN last
    THEN {last.send[i].id :
              i \in {k \in DOMAIN last.send :
                        last.send[k].op \in {"Join", "ClientMessage", "Disconnect"}}}
    ELSE {}

\* The ChatServer assigned the session h an id, which the closure of
\* started() stored.
Assigned(h) == sess[h].connected /\ sess[h].st \notin {"New", "Connecting"}

\* C19: every Join, ClientMessage and Disconnect a session sends carries the
\* id the ChatServer assigned to it in its Connect response, and a session
\* whose registration failed sends no command with an id that names a
\* registered session.  In steps: the response to a Connect carries the id
\* the handler registered for the session; the closure stores that id, and
\* nothing else ever changes a session's id; a command sent by a session
\* that was assigned an id carries that id; and a command sent by a session
\* that was assigned none carries no id of the registry.  (The claim as
\* stated; the code breaks it.)
C19_OnlyAssignedIds ==
    [][/\ \A h \in DOMAIN sess :
            /\ sess'[h].id # sess[h].id =>
                  /\ last'.op = "connected" /\ last'.h = h
                  /\ last'.res = [ok |-> TRUE, id |-> sess'[h].id]
            /\ (last'.op = "connected" /\ last'.h = h /\ last'.res.ok) =>
                  sess'[h].id = last'.res.id /\ sess'[h].st = "Active"
            /\ ("send" \in DOMAIN last' /\ last'.h = h) =>
                  \A id \in CommandIds' :
                      IF Assigned(h) THEN id = sess[h].id
                      ELSE id \notin DOMAIN sessions
       /\ ConnectStep =>
            /\ sessions'[last'.id] = last'.addr
            /\ sess'[last'.addr].res \subseteq {[ok |-> TRUE, id |-> last'.id]}]_vars

\* ------------------------------------------------------------ local room
\* The session h is Active and the registry maps its id to it.
ActiveRegistered(h) ==
    /\ sess[h].st = "Active"
    /\ sess[h].id \in DOMAIN sessions
    /\ sessions[sess[h].id] = h

\* C20: an Active, registered session with no command of its id waiting in
\* the ChatServer's mailbox is a member of exactly the room its own room
\* field names; and when the ChatServer handles a ClientMessage(id, text, R)
\* of such a session, id is a member of R.  (The claim as stated; the code
\* breaks it.)
C20_RoomAgreement ==
    [][/\ \A h \in DOMAIN sess :
            (/\ ActiveRegistered(h)'
             /\ \A i \in DOMAIN mailbox' :
                    mailbox'[i].op \in {"Join", "ClientMessage", "Disconnect"} =>
                        mailbox'[i].id # sess'[h].id) =>
                RoomsHolding(rooms', sess'[h].id) = {sess'[h].room}
       /\ (mailbox # <<>> /\ Head(mailbox).op = "ClientMessage" /\ mailbox' = Tail(mailbox)) =>
            LET c == Head(mailbox) IN
            \A h \in DOMAIN sess :
                (ActiveRegistered(h) /\ sess[h].id = c.id /\ sess[h].room = c.room) =>
                    (c.room \in DOMAIN rooms /\ c.id \in rooms[c.room])]_vars

====
